---- MODULE Spec2Model ----
(***************************************************************************)
(* Model of the Ryze Scraper Logger node                                   *)
(* (nodes/RyzeScraperLogger/RyzeScraperLogger.node.ts): execute() maps     *)
(* every input item to a log row and inserts it through insertLog(), one   *)
(* connection per item, with per-item error isolation or fatal escalation. *)
(***************************************************************************)
EXTENDS Integers, Sequences, FiniteSets, TLC

\* Largest input batch explored.
MaxItems == 3

----------------------------------------------------------------------------
(* JavaScript values of the loosely typed input: a tag, a number, a string *)

Undefined == [t |-> "undefined", n |-> 0, s |-> ""]
Null == [t |-> "null", n |-> 0, s |-> ""]
NaN == [t |-> "nan", n |-> 0, s |-> ""]
Num(k) == [t |-> "number", n |-> k, s |-> ""]
Str(x) == [t |-> "string", n |-> 0, s |-> x]

\* ToBoolean: undefined, null, NaN, 0 and "" are falsy.
Truthy(v) ==
    CASE v.t = "undefined" -> FALSE
      [] v.t = "null" -> FALSE
      [] v.t = "nan" -> FALSE
      [] v.t = "number" -> v.n # 0
      [] v.t = "string" -> v.s # ""
      [] OTHER -> TRUE

\* a || d
OrElse(v, d) == IF Truthy(v) THEN v ELSE d

\* a ?? d
Nullish(v, d) == IF v.t \in {"undefined", "null"} THEN d ELSE v

\* ToNumber on the strings of the explored domain: "" is 0, a decimal
\* literal is its value, anything else is NaN.
StringToNumber(x) ==
    CASE x = "" -> Num(0)
      [] x = "7" -> Num(7)
      [] OTHER -> NaN

ToNumber(v) ==
    CASE v.t = "number" -> v
      [] v.t = "null" -> Num(0)
      [] v.t = "string" -> StringToNumber(v.s)
      [] OTHER -> NaN

\* a > b with both operands coerced by ToNumber; false when either is NaN.
GreaterThan(a, b) ==
    LET x == ToNumber(a)
        y == ToNumber(b)
    IN  x.t = "number" /\ y.t = "number" /\ x.n > y.n

----------------------------------------------------------------------------
(* JSON.stringify on the explored shapes                                   *)

\* A primitive: NaN and null print as null, a string is quoted.
StringifyValue(v) ==
    CASE v.t = "number" -> ToString(v.n)
      [] v.t = "string" -> "\"" \o v.s \o "\""
      [] OTHER -> "null"

\* The members of an object: a sequence of <<key, text>>, text "" standing
\* for an undefined member, which JSON.stringify leaves out.
RECURSIVE StringifyMembers(_, _)
StringifyMembers(members, first) ==
    IF members = <<>> THEN ""
    ELSE LET m == Head(members)
         IN  IF m[2] = ""
             THEN StringifyMembers(Tail(members), first)
             ELSE (IF first THEN "" ELSE ",") \o "\"" \o m[1] \o "\":" \o m[2]
                  \o StringifyMembers(Tail(members), FALSE)

StringifyObject(members) == "{" \o StringifyMembers(members, TRUE) \o "}"

\* A member whose value is a primitive (undefined members are dropped).
Member(key, v) == <<key, IF v.t = "undefined" THEN "" ELSE StringifyValue(v)>>

\* An event_summary mapping: a sequence of <<event, count>>.
StringifyMapping(pairs) ==
    StringifyObject([k \in 1..Len(pairs) |-> <<pairs[k][1], ToString(pairs[k][2])>>])

\* summary.event_summary is absent or a mapping.
StringifyEventSummary(es) ==
    IF es.present THEN StringifyMapping(es.pairs) ELSE ""

\* input.summary: absent, null, a string or an object.
StringifySummary(sm) ==
    CASE sm.kind = "absent" -> ""
      [] sm.kind = "null" -> "null"
      [] sm.kind = "string" -> "\"n/a\""
      [] OTHER ->
            StringifyObject(<<Member("total_input", sm.total_input),
                              Member("new_items", sm.new_items),
                              Member("exact_duplicates", sm.exact_duplicates),
                              Member("updated_items", sm.updated_items),
                              Member("pixel_failed", sm.pixel_failed),
                              <<"event_summary", StringifyEventSummary(sm.event_summary)>> >>)

\* input.execution: absent or an object.
StringifyExecution(ex) ==
    IF ex.kind = "absent" THEN ""
    ELSE StringifyObject(<<Member("mode", ex.mode)>>)

\* JSON.stringify(input)
StringifyInput(input) ==
    StringifyObject(<<Member("script_id", input.script_id),
                      Member("table", input.table),
                      <<"summary", StringifySummary(input.summary)>>,
                      <<"execution", StringifyExecution(input.execution)>> >>)

----------------------------------------------------------------------------
(* Input items                                                             *)

NoEventSummary == [present |-> FALSE, pairs |-> <<>>]
ClickView == [present |-> TRUE, pairs |-> << <<"click", 3>>, <<"view", 10>> >>]

\* A summary that is not an object has no members.
NoSummary(kind) ==
    [kind |-> kind, total_input |-> Undefined, new_items |-> Undefined,
     exact_duplicates |-> Undefined, updated_items |-> Undefined,
     pixel_failed |-> Undefined, event_summary |-> NoEventSummary]

EmptySummary == NoSummary("object")

NoExecution == [kind |-> "absent", mode |-> Undefined]

\* Values a counter member is explored over.
CounterVals == {Undefined, Null, Num(0), Num(5), Str("abc")}

\* Values summary.pixel_failed is explored over.
PixelFailedVals == {Undefined, Null, Num(-1), Num(0), Num(2), NaN, Str("7")}

\* Values execution.mode is explored over.
ModeVals == {Undefined, Null, Str(""), Str("regular"), Str("monthly"), Str("weekly")}

SummaryVals ==
    {NoSummary(k) : k \in {"absent", "null", "string"}}
    \cup [kind : {"object"}, total_input : CounterVals, new_items : CounterVals,
          exact_duplicates : CounterVals, updated_items : CounterVals,
          pixel_failed : PixelFailedVals, event_summary : {NoEventSummary, ClickView}]

ExecutionVals == {NoExecution} \cup [kind : {"object"}, mode : ModeVals]

\* Every item shape explored for the row construction.
AllItems ==
    [summary : SummaryVals, execution : ExecutionVals,
     script_id : {Undefined}, table : {Undefined}]

\* Item shapes of the batch runs: a bare item, and an item with a failing
\* pixel count whose own script_id and table members differ from the node's.
BatchItems ==
    {[summary |-> NoSummary("absent"), execution |-> NoExecution,
      script_id |-> Undefined, table |-> Undefined],
     [summary |-> [EmptySummary EXCEPT !.total_input = Num(5),
                                       !.pixel_failed = Num(2),
                                       !.event_summary = ClickView],
      execution |-> [kind |-> "object", mode |-> Str("monthly")],
      script_id |-> Num(9999), table |-> Str("other_table")]}

----------------------------------------------------------------------------
(* Host context                                                            *)

\* What the host resolves for the node's parameters at item index 0.
BaseParams(selector, opts) ==
    [scriptId |-> 3001, database |-> "backoffice", table |-> "n8n_scraper_logs",
     executionMode |-> selector, options |-> opts]

\* Parameters given as expressions resolve differently at other indices.
ExpressionParams(base, idx) ==
    IF idx = 0 THEN base
    ELSE [scriptId |-> base.scriptId + idx,
          database |-> base.database \o "_" \o ToString(idx),
          table |-> base.table \o "_" \o ToString(idx),
          executionMode |-> IF base.executionMode = "monthly" THEN "regular" ELSE "monthly",
          options |-> [failOnError |-> ~base.options.failOnError,
                       verboseLogging |-> ~base.options.verboseLogging]]

Selectors == {"auto", "regular", "monthly"}

\* Errors the collaborators raise.
CredentialError == "Credentials could not be found"
ConnectError == "connect ECONNREFUSED"
InsertError == "ER_NO_SUCH_TABLE"
EndError == "Connection lost"

VARIABLES
    items,          \* this.getInputData(): the json of every input item
    nodeParams,     \* this.getNodeParameter(name, idx), by item index idx
    workflowMode,   \* this.getMode()
    workflowName,   \* this.getWorkflow().name
    pc,             \* position of execute()
    scriptId, database, table, executionMode, options,  \* locals of execute()
    i,              \* loop index (0-based)
    results,        \* accumulated result records
    logData,        \* the log row of the current item
    error,          \* the error caught for the current item
    pending,        \* the error thrown in insertLog's try block, "" if none
    connection,     \* insertLog's connection: "none", "open", "ended"
    calls,          \* every call made to a collaborator, in order
    db,             \* rows persisted by the database
    outcome         \* how execute() ended: nothing yet, a return or a throw

vars == <<items, nodeParams, workflowMode, workflowName, pc, scriptId, database,
          table, executionMode, options, i, results, logData, error, pending,
          connection, calls, db, outcome>>

host == <<items, nodeParams, workflowMode, workflowName>>
locals == <<scriptId, database, table, executionMode, options>>

NoLogData == [script_id |-> 0]
NotEnded == [kind |-> "running"]

Call(op, ok) == [op |-> op, item |-> i, ok |-> ok]

\* The state before execute() runs, the host context given.
Start(its, params, wmode, wname) ==
    /\ items = its
    /\ nodeParams = params
    /\ workflowMode = wmode
    /\ workflowName = wname
    /\ pc = "setup"
    /\ scriptId = 0
    /\ database = ""
    /\ table = ""
    /\ executionMode = ""
    /\ options = [failOnError |-> FALSE, verboseLogging |-> FALSE]
    /\ i = 0
    /\ results = <<>>
    /\ logData = NoLogData
    /\ error = ""
    /\ pending = ""
    /\ connection = "none"
    /\ calls = <<>>
    /\ db = <<>>
    /\ outcome = NotEnded

----------------------------------------------------------------------------
(* execute(): the log row                                                  *)

\* const summary = (input.summary || {}): absent and null give {}; the
\* members of a string read as undefined.
SummaryOf(input) ==
    IF input.summary.kind \in {"absent", "null"} THEN EmptySummary ELSE input.summary

\* const execution = (input.execution || {})
ExecutionOf(input) ==
    IF input.execution.kind = "absent"
    THEN [kind |-> "object", mode |-> Undefined]
    ELSE input.execution

\* Mutant: execution.mode is consulted whatever the selector is.
ResolveMode_AlwaysDetect(selector, execution) ==
    OrElse(execution.mode, Str(IF selector = "auto" THEN "regular" ELSE selector))

\* let mode = executionMode; if (mode === 'auto') mode = execution.mode || 'regular'
ResolveMode(selector, execution) ==
    IF selector = "auto" THEN OrElse(execution.mode, Str("regular")) ELSE Str(selector)

\* workflowMode === 'manual' ? 'manual' : 'scheduled'
ExecutionType(wmode) == IF wmode = "manual" THEN "manual" ELSE "scheduled"

\* workflow.name || 'Unknown'
WorkflowName(name) == IF name # "" THEN name ELSE "Unknown"

\* Mutant: the comparison is >= 0 instead of > 0.
StatusOf_NonStrict(summary) ==
    IF GreaterThan(Nullish(summary.pixel_failed, Num(0)), Num(-1)) THEN "failed" ELSE "success"

\* (summary.pixel_failed ?? 0) > 0 ? 'failed' : 'success'
StatusOf(summary) ==
    IF GreaterThan(Nullish(summary.pixel_failed, Num(0)), Num(0)) THEN "failed" ELSE "success"

\* summary.<counter> || 0
CounterOf(v) == OrElse(v, Num(0))

\* JSON.stringify(summary.event_summary || {})
EventSummaryOf(summary) ==
    StringifyMapping(IF summary.event_summary.present THEN summary.event_summary.pairs ELSE <<>>)

\* const logData: ILogData = { ... }
BuildLogData(input, sid, selector, wmode, wname) ==
    LET summary == SummaryOf(input)
        execution == ExecutionOf(input)
    IN  [script_id |-> sid,
         execution_mode |-> ResolveMode(selector, execution),
         execution_type |-> ExecutionType(wmode),
         workflow_name |-> WorkflowName(wname),
         status |-> StatusOf(summary),
         items_processed |-> CounterOf(summary.total_input),
         pixel_new |-> CounterOf(summary.new_items),
         pixel_duplicates |-> CounterOf(summary.exact_duplicates),
         pixel_updated |-> CounterOf(summary.updated_items),
         event_summary |-> EventSummaryOf(summary),
         full_details |-> StringifyInput(input)]

----------------------------------------------------------------------------
(* execute(): the batch loop                                               *)

\* The parameters are read once, at item index 0, before the loop.
Setup ==
    /\ pc = "setup"
    /\ scriptId' = nodeParams[0].scriptId
    /\ database' = nodeParams[0].database
    /\ table' = nodeParams[0].table
    /\ executionMode' = nodeParams[0].executionMode
    /\ options' = nodeParams[0].options
    /\ results' = <<>>
    /\ i' = 0
    /\ pc' = "loop"
    /\ UNCHANGED <<host, logData, error, pending, connection, calls, db, outcome>>

\* Mutant: the script id is read again at the item's own index.
BuildRow_PerItem ==
    /\ pc = "loop"
    /\ i < Len(items)
    /\ LET row == BuildLogData(items[i + 1], nodeParams[i].scriptId, executionMode,
                               workflowMode, workflowName)
       IN  /\ logData' = row
           /\ calls' = calls
                  \o (IF options.verboseLogging THEN <<Call("logger.info", TRUE)>> ELSE <<>>)
                  \o <<Call("insertLog", TRUE)>>
    /\ pc' = "credentials"
    /\ UNCHANGED <<host, locals, i, results, error, pending, connection, db, outcome>>

\* One pass of the try block up to the call of insertLog.
BuildRow ==
    /\ pc = "loop"
    /\ i < Len(items)
    /\ LET row == BuildLogData(items[i + 1], scriptId, executionMode,
                               workflowMode, workflowName)
       IN  /\ logData' = row
           /\ calls' = calls
                  \o (IF options.verboseLogging THEN <<Call("logger.info", TRUE)>> ELSE <<>>)
                  \o <<Call("insertLog", TRUE)>>
    /\ pc' = "credentials"
    /\ UNCHANGED <<host, locals, i, results, error, pending, connection, db, outcome>>

\* return [results]
Return ==
    /\ pc = "loop"
    /\ i >= Len(items)
    /\ outcome' = [kind |-> "returned", batches |-> <<results>>]
    /\ pc' = "done"
    /\ UNCHANGED <<host, locals, i, results, logData, error, pending, connection,
                   calls, db>>

\* results.push({json: {success: true, ...}, pairedItem: i}), next item.
\* (logged_at, the wall-clock time of the push, is left out.)
PushSuccess ==
    /\ pc = "success"
    /\ results' = Append(results,
            [json |-> [success |-> TRUE, script_id |-> scriptId, log_data |-> logData],
             pairedItem |-> i])
    /\ i' = i + 1
    /\ pc' = "loop"
    /\ UNCHANGED <<host, locals, logData, error, pending, connection, calls, db, outcome>>

\* Mutant: the loop is left and what was accumulated is returned.
CatchThrow_ReturnPartial ==
    /\ pc = "catch"
    /\ options.failOnError
    /\ outcome' = [kind |-> "returned", batches |-> <<results>>]
    /\ pc' = "done"
    /\ UNCHANGED <<host, locals, i, results, logData, error, pending, connection,
                   calls, db>>

\* catch (error) with options.failOnError: throw new NodeOperationError(...)
CatchThrow ==
    /\ pc = "catch"
    /\ options.failOnError
    /\ outcome' = [kind |-> "thrown",
                   message |-> "Failed to log execution: " \o error,
                   itemIndex |-> i]
    /\ pc' = "done"
    /\ UNCHANGED <<host, locals, i, results, logData, error, pending, connection,
                   calls, db>>

\* Mutant: the error is logged but no failure record is pushed.
CatchContinue_NoRecord ==
    /\ pc = "catch"
    /\ ~options.failOnError
    /\ calls' = Append(calls, Call("logger.error", TRUE))
    /\ i' = i + 1
    /\ pc' = "loop"
    /\ UNCHANGED <<host, locals, results, logData, error, pending, connection, db, outcome>>

\* Mutant: the failure record is pushed and the loop is left (break).
CatchContinue_Break ==
    /\ pc = "catch"
    /\ ~options.failOnError
    /\ calls' = Append(calls, Call("logger.error", TRUE))
    /\ results' = Append(results,
            [json |-> [success |-> FALSE, error |-> error, script_id |-> scriptId],
             pairedItem |-> i])
    /\ i' = Len(items)
    /\ pc' = "loop"
    /\ UNCHANGED <<host, locals, logData, error, pending, connection, db, outcome>>

\* catch (error) otherwise: logger.error, push the failure record, next item.
CatchContinue ==
    /\ pc = "catch"
    /\ ~options.failOnError
    /\ calls' = Append(calls, Call("logger.error", TRUE))
    /\ results' = Append(results,
            [json |-> [success |-> FALSE, error |-> error, script_id |-> scriptId],
             pairedItem |-> i])
    /\ i' = i + 1
    /\ pc' = "loop"
    /\ UNCHANGED <<host, locals, logData, error, pending, connection, db, outcome>>

----------------------------------------------------------------------------
(* insertLog()                                                             *)

\* const credentials = await executeFunctions.getCredentials('mySqlApi')
GetCredentials ==
    /\ pc = "credentials"
    /\ \E ok \in BOOLEAN :
          /\ calls' = Append(calls, Call("getCredentials", ok))
          /\ IF ok
             THEN pc' = "connect" /\ error' = error
             ELSE pc' = "catch" /\ error' = CredentialError
    /\ UNCHANGED <<host, locals, i, results, logData, pending, connection, db, outcome>>

\* const mysql = eval("require('mysql2/promise')");
\* const connection = await mysql.createConnection({...})
\* (a failing require raises here as well, with no connection opened)
CreateConnection ==
    /\ pc = "connect"
    /\ \E ok \in BOOLEAN :
          /\ calls' = Append(calls, Call("createConnection", ok))
          /\ IF ok
             THEN pc' = "execute" /\ connection' = "open" /\ error' = error
             ELSE pc' = "catch" /\ connection' = connection /\ error' = ConnectError
    /\ pending' = ""
    /\ UNCHANGED <<host, locals, i, results, logData, db, outcome>>

\* Mutant: connection.end() follows the INSERT inside the try block, with
\* no finally: a failed INSERT goes straight to the caller.
ExecuteInsert_NoFinally ==
    /\ pc = "execute"
    /\ \E ok \in BOOLEAN :
          /\ calls' = Append(calls, Call("execute", ok))
          /\ IF ok
             THEN /\ db' = Append(db, [target |-> database \o "." \o table,
                                       row |-> logData, item |-> i])
                  /\ pc' = "finally"
                  /\ error' = error
             ELSE /\ db' = db
                  /\ pc' = "catch"
                  /\ error' = InsertError
    /\ pending' = ""
    /\ UNCHANGED <<host, locals, i, results, logData, connection, outcome>>

\* try { await connection.execute(query, [...]) }: on success the row is
\* stored in ${database}.${table}; either way the finally block runs next.
ExecuteInsert ==
    /\ pc = "execute"
    /\ \E ok \in BOOLEAN :
          /\ calls' = Append(calls, Call("execute", ok))
          /\ IF ok
             THEN /\ db' = Append(db, [target |-> database \o "." \o table,
                                       row |-> logData, item |-> i])
                  /\ pending' = ""
             ELSE /\ db' = db
                  /\ pending' = InsertError
    /\ pc' = "finally"
    /\ UNCHANGED <<host, locals, i, results, logData, error, connection, outcome>>

\* Mutant: after a successful INSERT the connection is kept for the next
\* item instead of being closed.
EndConnection_KeepOpen ==
    /\ pc = "finally"
    /\ IF pending = ""
       THEN /\ pc' = "success"
            /\ UNCHANGED <<connection, calls, error>>
       ELSE /\ connection' = "ended"
            /\ calls' = Append(calls, Call("end", TRUE))
            /\ pc' = "catch"
            /\ error' = pending
    /\ pending' = ""
    /\ UNCHANGED <<host, locals, i, results, logData, db, outcome>>

\* finally { await connection.end() }: an error of end() replaces the one
\* pending from the try block; otherwise the pending one propagates.
EndConnection ==
    /\ pc = "finally"
    /\ connection' = "ended"
    /\ \E ok \in BOOLEAN :
          /\ calls' = Append(calls, Call("end", ok))
          /\ IF ~ok
             THEN pc' = "catch" /\ error' = EndError
             ELSE IF pending # ""
                  THEN pc' = "catch" /\ error' = pending
                  ELSE pc' = "success" /\ error' = error
    /\ pending' = ""
    /\ UNCHANGED <<host, locals, i, results, logData, db, outcome>>

----------------------------------------------------------------------------
(* Specifications                                                          *)

\* Host contexts of the batch runs.
ParamTables(base) ==
    {[idx \in 0..MaxItems |-> base], [idx \in 0..MaxItems |-> ExpressionParams(base, idx)]}

Workflows == {<<"manual", "Scraper">>, <<"trigger", "">>}

\* Selector, workflow and verboseLogging of the batch runs.
BatchContexts ==
    {<<"auto", "manual", "Scraper", FALSE>>, <<"monthly", "trigger", "", TRUE>>}

Batches == UNION {[1..n -> BatchItems] : n \in 0..MaxItems}

Init ==
    \E its \in Batches, c \in BatchContexts, foe \in BOOLEAN :
        \E params \in ParamTables(BaseParams(c[1], [failOnError |-> foe,
                                                     verboseLogging |-> c[4]])) :
            Start(its, params, c[2], c[3])

Next ==
    \/ Setup
    \/ BuildRow
    \/ GetCredentials
    \/ CreateConnection
    \/ ExecuteInsert
    \/ EndConnection
    \/ PushSuccess
    \/ CatchThrow
    \/ CatchContinue
    \/ Return

Spec == Init /\ [][Next]_vars

\* Row construction alone: one item of any explored shape, every selector.
InitRow ==
    \E it \in AllItems, sel \in Selectors, w \in Workflows :
        Start(<<it>>,
              [idx \in 0..MaxItems |->
                  BaseParams(sel, [failOnError |-> FALSE, verboseLogging |-> FALSE])],
              w[1], w[2])

NextRow ==
    \/ Setup
    \/ BuildRow

SpecRow == InitRow /\ [][NextRow]_vars

----------------------------------------------------------------------------
(* Vocabulary of the properties                                            *)

Indices == 0..(Len(items) - 1)

\* The calls of one kind made for item k, and the successful ones.
CallsOf(op, k) == {c \in 1..Len(calls) : calls[c].op = op /\ calls[c].item = k}
Count(op, k) == Cardinality(CallsOf(op, k))
CountOk(op, k) == Cardinality({c \in CallsOf(op, k) : calls[c].ok})

\* The collaborator calls of insertLog, and the message each raises.
StageOps == {"getCredentials", "createConnection", "execute", "end"}
MessageOf(op) ==
    CASE op = "getCredentials" -> CredentialError
      [] op = "createConnection" -> ConnectError
      [] op = "execute" -> InsertError
      [] OTHER -> EndError

\* The failed collaborator calls made for item k.
FailuresOf(k) ==
    {c \in 1..Len(calls) : calls[c].item = k /\ calls[c].op \in StageOps /\ ~calls[c].ok}
Failed(k) == FailuresOf(k) # {}
\* The error that reaches the catch block: the last one raised for item k.
LastError(k) ==
    MessageOf(calls[CHOOSE c \in FailuresOf(k) : \A d \in FailuresOf(k) : d <= c].op)

SomeFailure(op) == \E c \in 1..Len(calls) : calls[c].op = op /\ ~calls[c].ok

Persisted(k) == \E r \in 1..Len(db) : db[r].item = k

Finished == pc = "done"
RowBuilt == pc = "credentials"

----------------------------------------------------------------------------
(* Properties of the log row (checked under SpecRow)                       *)

TheItem == items[i + 1]
RawMode == TheItem.execution.mode
ModePresent == TheItem.execution.kind = "object" /\ RawMode.t # "undefined"

\* C5 as stated: a selector other than 'auto' is the effective mode
\* whatever execution.mode is; under 'auto' every present execution.mode,
\* the empty string included, is the effective mode; under 'auto' with
\* execution.mode absent the effective mode is 'regular'.
C5_ModeAsStated ==
    RowBuilt =>
        /\ executionMode # "auto" => logData.execution_mode = Str(executionMode)
        /\ executionMode = "auto" /\ ModePresent /\ RawMode.t = "string"
              => logData.execution_mode = RawMode
        /\ executionMode = "auto" /\ ~ModePresent => logData.execution_mode = Str("regular")

\* C5 amended: a selector other than 'auto' is the effective mode whatever
\* execution.mode is; under 'auto' a truthy execution.mode (a non-empty
\* string) is the effective mode, and an absent or falsy one (undefined,
\* null, the empty string) gives 'regular'.
C5_ModeResolution ==
    RowBuilt =>
        /\ executionMode # "auto" => logData.execution_mode = Str(executionMode)
        /\ executionMode = "auto" /\ RawMode.t = "string" /\ RawMode.s # ""
              => logData.execution_mode = RawMode
        /\ executionMode = "auto" /\ (~ModePresent \/ RawMode.t = "null" \/ RawMode = Str(""))
              => logData.execution_mode = Str("regular")

\* C5 witness: under 'auto' an item whose execution.mode is the empty
\* string has been given the mode 'regular'.
C5_Witness ==
    /\ RowBuilt
    /\ executionMode = "auto"
    /\ ModePresent /\ RawMode = Str("")
    /\ logData.execution_mode = Str("regular")

RawPixelFailed == TheItem.summary.pixel_failed

\* C6: the status of the row is 'failed' exactly when summary.pixel_failed
\* is a number strictly greater than zero, and 'success' when the summary
\* or the counter is missing.
C6_StatusDerivation ==
    RowBuilt =>
        /\ logData.status \in {"failed", "success"}
        /\ RawPixelFailed.t = "number"
              => (logData.status = "failed" <=> RawPixelFailed.n > 0)
        /\ TheItem.summary.kind # "object" \/ RawPixelFailed.t \in {"undefined", "null"}
              => logData.status = "success"

\* C6 witness: a row built from pixel_failed = 2 has status 'failed'.
C6_Witness ==
    /\ RowBuilt
    /\ RawPixelFailed = Num(2)
    /\ logData.status = "failed"

\* What C8 expects of one counter: the member when it is a number, else 0.
ExpectedCounter(v) == IF v.t = "number" THEN v ELSE Num(0)

\* C8 as stated: each of the four counters of the row is zero when its
\* summary member is absent or not a number and equals the member
\* otherwise; an item with neither summary nor execution gives all
\* counters zero, mode 'regular' under 'auto' and status 'success'.
C8_CounterDefaults ==
    RowBuilt =>
        /\ logData.items_processed = ExpectedCounter(TheItem.summary.total_input)
        /\ logData.pixel_new = ExpectedCounter(TheItem.summary.new_items)
        /\ logData.pixel_duplicates = ExpectedCounter(TheItem.summary.exact_duplicates)
        /\ logData.pixel_updated = ExpectedCounter(TheItem.summary.updated_items)
        /\ TheItem.summary.kind = "absent" /\ TheItem.execution.kind = "absent"
              => /\ logData.items_processed = Num(0)
                 /\ logData.pixel_new = Num(0)
                 /\ logData.pixel_duplicates = Num(0)
                 /\ logData.pixel_updated = Num(0)
                 /\ logData.status = "success"
                 /\ executionMode = "auto" => logData.execution_mode = Str("regular")

----------------------------------------------------------------------------
(* Properties of the batch (checked under Spec)                            *)

Resolved == pc # "setup"
Isolating == Resolved /\ ~options.failOnError
Escalating == Resolved /\ options.failOnError

IsSuccess(rec) == rec.json.success
SuccessRecord(k) ==
    [json |-> [success |-> TRUE, script_id |-> nodeParams[0].scriptId,
               log_data |-> BuildLogData(items[k + 1], nodeParams[0].scriptId,
                                         nodeParams[0].executionMode,
                                         workflowMode, workflowName)],
     pairedItem |-> k]
FailureRecord(k) ==
    [json |-> [success |-> FALSE, error |-> LastError(k),
               script_id |-> nodeParams[0].scriptId],
     pairedItem |-> k]

\* C1: with failOnError off execute never throws, whatever fails; it ends
\* by returning exactly one batch as long as the input whose entry at
\* position k carries pairedItem = k.
C1_SameLengthOutput ==
    Isolating =>
        /\ outcome.kind # "thrown"
        /\ Len(results) <= Len(items)
        /\ \A k \in 1..Len(results) : results[k].pairedItem = k - 1
        /\ Finished =>
              /\ outcome.kind = "returned"
              /\ Len(outcome.batches) = 1
              /\ Len(outcome.batches[1]) = Len(items)
              /\ \A k \in Indices : outcome.batches[1][k + 1].pairedItem = k

\* C1 witness: a batch of three returned with failOnError off although a
\* credential lookup, a connect, an insert and a close have all failed.
C1_Witness ==
    /\ Isolating /\ Finished
    /\ Len(items) = 3
    /\ outcome.kind = "returned"
    /\ \A op \in StageOps : SomeFailure(op)

\* C2: with failOnError off, once execute has returned: insertLog was
\* called exactly once for every item and the INSERT ran at most once per
\* item, exactly once for every item whose connection opened; an item with a
\* failed step has the failure record (success=false, the error's message,
\* the script id); an item with no failed step has the success record,
\* whatever happened to the other items; and in a run where no close failed
\* the success records are exactly those of the items whose INSERT succeeded.
C2_ErrorIsolation ==
    Isolating /\ Finished =>
        /\ Len(outcome.batches[1]) = Len(items)
        /\ \A k \in Indices :
              /\ Count("insertLog", k) = 1
              /\ Count("execute", k) = CountOk("createConnection", k)
              /\ Count("execute", k) <= 1
              /\ Failed(k) => outcome.batches[1][k + 1] = FailureRecord(k)
              /\ ~Failed(k) =>
                    /\ outcome.batches[1][k + 1] = SuccessRecord(k)
                    /\ CountOk("execute", k) = 1
              /\ ~SomeFailure("end") =>
                    (IsSuccess(outcome.batches[1][k + 1]) <=> CountOk("execute", k) = 1)

\* C2 witness: three items, the INSERT of the second failed, the first and
\* the third each had one successful INSERT and a success record.
C2_Witness ==
    /\ Isolating /\ Finished
    /\ Len(items) = 3
    /\ Count("execute", 1) = 1 /\ CountOk("execute", 1) = 0
    /\ ~IsSuccess(outcome.batches[1][2])
    /\ CountOk("execute", 0) = 1 /\ CountOk("execute", 2) = 1
    /\ IsSuccess(outcome.batches[1][1]) /\ IsSuccess(outcome.batches[1][3])

\* C3: with failOnError on, every failed step belongs to the item being
\* processed and nothing is called for a later item; no failure record is
\* ever accumulated; and execute ends by throwing exactly when a step has
\* failed, the error carrying that item's index and the message of the
\* underlying error, with no batch returned.
C3_FatalEscalation ==
    Escalating =>
        /\ \A c \in 1..Len(calls) : calls[c].item <= i /\ (~calls[c].ok => calls[c].item = i)
        /\ \A k \in 1..Len(results) : IsSuccess(results[k])
        /\ Failed(i) => pc \in {"finally", "catch", "done"}
        /\ Finished /\ i < Len(items) =>
              /\ Failed(i)
              /\ outcome = [kind |-> "thrown",
                            message |-> "Failed to log execution: " \o LastError(i),
                            itemIndex |-> i]
              /\ \A k \in Indices : k > i => \A op \in StageOps : Count(op, k) = 0
        /\ Finished /\ i >= Len(items) =>
              /\ outcome.kind = "returned"
              /\ \A k \in Indices : ~Failed(k)

\* C3 witness: a batch of three aborted at its second item: one success
\* record had been accumulated and none is returned.
C3_Witness ==
    /\ Escalating /\ Finished
    /\ Len(items) = 3
    /\ outcome.kind = "thrown" /\ outcome.itemIndex = 1
    /\ Len(results) = 1
    /\ Count("execute", 1) = 1

OpenNow == {k \in Indices : CountOk("createConnection", k) > Count("end", k)}
InsideConnection == pc \in {"execute", "finally"}

\* C4: a connection is closed once per successful open and never without
\* one; it is open only between createConnection and the finally block of
\* the same insertLog call, so it has been closed by the time insertLog
\* returns or its error reaches the catch block; after execute ends the
\* closes equal the successful opens.
C4_ConnectionReleased ==
    /\ \A k \in Indices :
          /\ Count("end", k) <= CountOk("createConnection", k)
          /\ CountOk("createConnection", k) <= 1
          /\ CountOk("createConnection", k) = 0 => Count("end", k) = 0
    /\ InsideConnection => OpenNow = {i} /\ connection = "open"
    /\ ~InsideConnection => OpenNow = {} /\ connection # "open"

\* C4 witness: execute has ended; one item's INSERT failed on an open
\* connection that was closed once, another item's connect failed and
\* nothing was closed for it.
C4_Witness ==
    /\ Finished
    /\ \E k \in Indices :
          /\ Count("execute", k) = 1 /\ CountOk("execute", k) = 0
          /\ Count("end", k) = 1
    /\ \E k \in Indices :
          /\ Count("createConnection", k) = 1 /\ CountOk("createConnection", k) = 0
          /\ Count("end", k) = 0

\* C7: the script id, database, table, selector and options in use are
\* those resolved at item index 0 for the whole run; every stored row and
\* every result record carries that script id and every row goes to that
\* database.table, whatever the item's own members and whatever the
\* parameters would resolve to at the item's index.
C7_BatchConstants ==
    Resolved =>
        /\ scriptId = nodeParams[0].scriptId
        /\ database = nodeParams[0].database
        /\ table = nodeParams[0].table
        /\ executionMode = nodeParams[0].executionMode
        /\ options = nodeParams[0].options
        /\ \A r \in 1..Len(db) :
              /\ db[r].row.script_id = nodeParams[0].scriptId
              /\ db[r].target = nodeParams[0].database \o "." \o nodeParams[0].table
              /\ nodeParams[0].executionMode # "auto"
                    => db[r].row.execution_mode = Str(nodeParams[0].executionMode)
        /\ \A k \in 1..Len(results) :
              /\ results[k].json.script_id = nodeParams[0].scriptId
              /\ IsSuccess(results[k])
                    => results[k].json.log_data.script_id = nodeParams[0].scriptId

\* C7 witness: the second item carries its own script_id and table members
\* and the parameters resolve differently at its index, and its row is
\* stored under the script id and table of index 0.
C7_Witness ==
    /\ Finished
    /\ Len(items) >= 2
    /\ items[2].script_id = Num(9999)
    /\ nodeParams[1].scriptId # nodeParams[0].scriptId
    /\ nodeParams[1].table # nodeParams[0].table
    /\ \E r \in 1..Len(db) : db[r].item = 1 /\ db[r].row.script_id = nodeParams[0].scriptId

\* C9: the calls are made in input order; while item i is being logged
\* exactly i results have been appended and every connection of an earlier
\* item is closed; no item opens a connection twice and at most one
\* connection is open at any moment.
C9_Sequential ==
    /\ \A c \in 1..(Len(calls) - 1) : calls[c].item <= calls[c + 1].item
    /\ \A c \in 1..Len(calls) : calls[c].item <= i
    /\ pc \notin {"setup", "done"} => Len(results) = i
    /\ \A k \in Indices :
          /\ Count("createConnection", k) <= 1
          /\ k < i => Count("end", k) = CountOk("createConnection", k)
          /\ k < i => Count("insertLog", k) = 1
          /\ k > i => Count("insertLog", k) = 0
    /\ Cardinality(OpenNow) <= 1

\* C9 witness: the third item's connection is open while the connections
\* of the first two items have both been opened and closed.
C9_Witness ==
    /\ pc = "execute" /\ i = 2
    /\ OpenNow = {2}
    /\ Count("end", 0) = 1 /\ Count("end", 1) = 1
    /\ Len(results) = 2

\* C10 as stated: with failOnError off, item k has a success record exactly
\* when its INSERT was executed successfully, so a failure record means no
\* row of item k was stored.
C10_RecordsMatchStore ==
    Isolating /\ Finished =>
        \A k \in Indices : IsSuccess(outcome.batches[1][k + 1]) <=> Persisted(k)

====
